---- MODULE Spec2Model ----
(***************************************************************************)
(* Model of ingest.py: load_csv_to_sql_server and its CLI entry point main. *)
(* One run is the sequence of steps of load_csv_to_sql_server; the          *)
(* destination table persists from one run to the next.                     *)
(***************************************************************************)
EXTENDS Integers, Sequences, FiniteSets, TLC

VARIABLES
    pc,                 \* position of the run inside load_csv_to_sql_server
    entry,              \* "main" (CLI process) or "direct" (function called by a caller)
    file,               \* what csv_path resolves to on the file system
    username, password, trusted_connection, if_exists,   \* the function's parameters
    df,                 \* the parsed dataset, NoDf before it is read
    connection_string,  \* the built connection descriptor, NoString before
    conn,               \* the local `conn`: "unbound", "open" or "closed"
    engine,             \* the SQLAlchemy engine and its pool
    opened,             \* physical database connections opened in this run
    out,                \* lines printed to standard output in this run
    result,             \* how the function call ended
    exit_status,        \* exit status of the CLI process ("0", "1" or "2"), NoStatus while it runs
    wrote,              \* TRUE once df.to_sql returned normally in this run
    table,              \* the destination table in the database
    tablePre,           \* the destination table when the run started
    prev                \* the run before this one, if it created the table

vars == <<pc, entry, file, username, password, trusted_connection, if_exists, df,
          connection_string, conn, engine, opened, out, result, exit_status,
          wrote, table, tablePre, prev>>

\* Bounds of the model.
MaxRows == 2
MaxTableRows == 1

\* Python's None.
None == "<None>"

\* Variant of Falsy: only a missing value counts, an empty string does not.
FalsyNoneOnly(s) == s = None

\* The truth value Python gives a string or None, negated.
Falsy(s) == s = None \/ s = ""

Str == {None, "", "u"}
Policies == {"fail", "replace", "append"}
Headers == {<<"id">>, <<"id", "name">>}
Vals == {"a", "b"}
NULL == "<NULL>"

NoDf == [columns |-> <<>>, rows |-> <<>>, parsed |-> FALSE]
NoString == [mode |-> "none", uid |-> "", pwd |-> ""]
NoTable == [exists |-> FALSE, columns |-> <<>>, rows |-> <<>>]
NoEngine == [created |-> FALSE, idle |-> 0, checkedOut |-> 0]
NoPrev == [created |-> FALSE, if_exists |-> "replace", nrows |-> 0]
NoStatus == "running"
Success == "0"
Failure == "1"
UsageError == "2"

\* A data line of a CSV whose header is h: one cell per column.
DataLine(v, h) == [i \in 1..Len(h) |-> v]

SeqsUpTo(S, n) == UNION {[1..k -> S] : k \in 0..n}

\* The files csv_path can resolve to: nothing, an undecodable file, a file with
\* no line at all, or a header line followed by up to MaxRows data lines.
Files ==
    {[exists |-> FALSE, decodable |-> TRUE, lines |-> <<>>],
     [exists |-> TRUE, decodable |-> FALSE, lines |-> <<>>],
     [exists |-> TRUE, decodable |-> TRUE, lines |-> <<>>]}
    \cup UNION {{[exists |-> TRUE, decodable |-> TRUE, lines |-> <<h>> \o body] :
                    body \in SeqsUpTo({DataLine(v, h) : v \in Vals}, MaxRows)} :
                 h \in Headers}

Msg(m, n) == [msg |-> m, n |-> n]

(***************************************************************************)
(* Library operations the function calls, as pure operators.                *)
(***************************************************************************)

\* Variant of isfile: the existence check is skipped.
isfileAlways(f) == TRUE

\* os.path.isfile(csv_path)
isfile(f) == f.exists

\* pd.read_csv: the first line is the header, the others are the rows. An
\* undecodable file or a file without any line raises.
read_csv_raises(f) == ~f.decodable \/ Len(f.lines) = 0
read_csv(f) == [columns |-> Head(f.lines), rows |-> Tail(f.lines), parsed |-> TRUE]

\* Variant of empty: the dataset is never taken to be empty.
emptyNever(d) == FALSE

\* DataFrame.empty: some axis has length 0.
empty(d) == Len(d.rows) = 0 \/ Len(d.columns) = 0

\* A row of the dataset as a row of a table with columns tcols: a column the
\* dataset lacks is NULL.
Reindex(row, dcols, tcols) ==
    [i \in 1..Len(tcols) |->
        IF \E j \in 1..Len(dcols) : dcols[j] = tcols[i]
        THEN row[CHOOSE j \in 1..Len(dcols) : dcols[j] = tcols[i]]
        ELSE NULL]

Range(s) == {s[i] : i \in 1..Len(s)}

\* Variant of to_sql_raises: 'fail' is not honoured.
to_sql_raises_append_only(d, t, policy) ==
    /\ t.exists
    /\ policy = "append"
    /\ ~(Range(d.columns) \subseteq Range(t.columns))

\* DataFrame.to_sql raises on its own account: the table exists under 'fail',
\* or an append names a column the table does not have.
to_sql_raises(d, t, policy) ==
    /\ t.exists
    /\ \/ policy = "fail"
       \/ policy = "append" /\ ~(Range(d.columns) \subseteq Range(t.columns))

\* Variant of to_sql: 'replace' adds to an existing table instead of replacing it.
to_sql_keeps(d, t, policy) ==
    IF t.exists
    THEN [t EXCEPT !.rows = @ \o [i \in 1..Len(d.rows) |->
                                      Reindex(d.rows[i], d.columns, t.columns)]]
    ELSE [exists |-> TRUE, columns |-> d.columns, rows |-> d.rows]

\* Variant of to_sql: 'append' replaces the table.
to_sql_overwrites(d, t, policy) ==
    [exists |-> TRUE, columns |-> d.columns, rows |-> d.rows]

\* The table DataFrame.to_sql leaves when it does not raise.
to_sql(d, t, policy) ==
    IF t.exists /\ policy = "append"
    THEN [t EXCEPT !.rows = @ \o [i \in 1..Len(d.rows) |->
                                      Reindex(d.rows[i], d.columns, t.columns)]]
    ELSE [exists |-> TRUE, columns |-> d.columns, rows |-> d.rows]

\* SELECT COUNT(*) FROM [table_name]
count_rows(t) == Len(t.rows)

\* The connection string of lines 32-37.
trusted_string == [mode |-> "trusted", uid |-> "", pwd |-> ""]
credential_string(u, p) == [mode |-> "credentials", uid |-> u, pwd |-> p]

\* Engine pool: a checkout reuses an idle connection or opens one.
checkout(e) == [e EXCEPT !.idle = IF @ > 0 THEN @ - 1 ELSE @, !.checkedOut = @ + 1]
checkout_opens(e) == IF e.idle > 0 THEN 0 ELSE 1
\* A connection that is released goes back to the pool.
checkin(e) == [e EXCEPT !.checkedOut = @ - 1, !.idle = @ + 1]

(***************************************************************************)
(* The state of a run.                                                      *)
(***************************************************************************)

Init ==
    /\ pc = "idle"
    /\ entry = "direct"
    /\ file = [exists |-> FALSE, decodable |-> TRUE, lines |-> <<>>]
    /\ username = "sa"
    /\ password = "P@ssw0rd!"
    /\ trusted_connection = FALSE
    /\ if_exists = "replace"
    /\ df = NoDf
    /\ connection_string = NoString
    /\ conn = "unbound"
    /\ engine = NoEngine
    /\ opened = 0
    /\ out = <<>>
    /\ result = "none"
    /\ exit_status = NoStatus
    /\ wrote = FALSE
    /\ table = NoTable
    /\ tablePre = NoTable
    /\ prev = NoPrev

\* A new call starts with fresh locals; the database keeps its table.
Enter(e, f, u, p, t, policy) ==
    /\ pc = "idle"
    /\ Len(table.rows) <= MaxTableRows
    /\ pc' = "isfile"
    /\ entry' = e
    /\ file' = f
    /\ username' = u
    /\ password' = p
    /\ trusted_connection' = t
    /\ if_exists' = policy
    /\ df' = NoDf
    /\ connection_string' = NoString
    /\ conn' = "unbound"
    /\ engine' = NoEngine
    /\ opened' = 0
    /\ out' = <<>>
    /\ result' = "running"
    /\ exit_status' = NoStatus
    /\ wrote' = FALSE
    /\ tablePre' = table
    /\ UNCHANGED <<table, prev>>

\* Variant of OrDefault: main passes its arguments on as they are.
OrDefaultPass(s, d) == s

\* username=args.username or 'sa', password=args.password or 'P@ssw0rd!'
OrDefault(s, d) == IF Falsy(s) THEN d ELSE s

\* The command lines main is given: how many of the two positional arguments
\* are there, the value of --if-exists, and whether --help comes first.
Argvs ==
    [positionals : 0..2, if_exists : Policies \cup {"bogus"}, help : BOOLEAN]

\* Line 93, parser.parse_args(): --help prints the usage and exits with status
\* 0; a missing positional argument or a value of --if-exists outside the
\* choices of line 90 is a usage error, exit status 2; otherwise the arguments
\* are returned.
parse_args(a) ==
    IF a.help THEN "help"
    ELSE IF a.positionals < 2 \/ a.if_exists \notin Policies THEN "error"
    ELSE "ok"

\* parse_args has ended the process: load_csv_to_sql_server is not called. The
\* usage error goes to standard error, the help text to standard output.
ParseExit(a, f) ==
    /\ pc' = "exited"
    /\ entry' = "main"
    /\ file' = f
    /\ username' = "sa"
    /\ password' = "P@ssw0rd!"
    /\ trusted_connection' = FALSE
    /\ if_exists' = "replace"
    /\ df' = NoDf
    /\ connection_string' = NoString
    /\ conn' = "unbound"
    /\ engine' = NoEngine
    /\ opened' = 0
    /\ out' = IF parse_args(a) = "help" THEN <<Msg("usage", 0)>> ELSE <<>>
    /\ result' = "not called"
    /\ exit_status' = IF parse_args(a) = "help" THEN Success ELSE UsageError
    /\ wrote' = FALSE
    /\ tablePre' = table
    /\ UNCHANGED <<table, prev>>

\* main: the CLI parses its arguments and, unless parse_args exits, calls the
\* function with them.
main ==
    /\ pc = "idle"
    /\ \E a \in Argvs :
        \/ /\ parse_args(a) = "ok"
           /\ \E f \in Files, u \in Str, p \in Str, t \in BOOLEAN :
                Enter("main", f, OrDefault(u, "sa"), OrDefault(p, "P@ssw0rd!"), t,
                      a.if_exists)
        \/ /\ parse_args(a) # "ok"
           /\ \E f \in Files :
                /\ a.positionals = 0 => f = [exists |-> FALSE, decodable |-> TRUE,
                                             lines |-> <<>>]
                /\ ParseExit(a, f)

\* A caller other than main calls load_csv_to_sql_server with its own arguments.
DirectCall ==
    /\ pc = "idle"
    /\ \E f \in Files, u \in Str, p \in Str, t \in BOOLEAN, policy \in Policies :
        Enter("direct", f, u, p, t, policy)

\* The call ends by an exception nobody catches: under main the interpreter
\* prints the traceback and the process exits with status 1.
Raise(exc) ==
    /\ pc' = "raised"
    /\ result' = exc
    /\ exit_status' = IF entry = "main" THEN Failure ELSE NoStatus

\* The call returns; main then returns and the process exits with status 0.
Return ==
    /\ pc' = "done"
    /\ result' = "returned"
    /\ exit_status' = IF entry = "main" THEN Success ELSE NoStatus

\* Lines 13-18.
CheckFile ==
    /\ pc = "isfile"
    /\ IF ~isfile(file)
       THEN /\ Raise("FileNotFoundError")
            /\ UNCHANGED out
       ELSE /\ pc' = "read_csv"
            /\ out' = Append(out, Msg("Reading data", 0))
            /\ UNCHANGED <<result, exit_status>>
    /\ UNCHANGED <<entry, file, username, password, trusted_connection, if_exists, df,
                   connection_string, conn, engine, opened, wrote, table, tablePre, prev>>

\* Lines 19-29.
ReadCsv ==
    /\ pc = "read_csv"
    /\ IF read_csv_raises(file)
       THEN /\ out' = Append(out, Msg("Error reading CSV", 0))
            /\ Return
            /\ UNCHANGED df
       ELSE /\ df' = read_csv(file)
            /\ IF empty(df')
               THEN /\ out' = Append(out, Msg("WARNING: The CSV file has no data!", 0))
                    /\ Return
               ELSE /\ out' = out \o <<Msg("CSV loaded rows", Len(df'.rows)),
                                       Msg("CSV loaded columns", Len(df'.columns))>>
                    /\ pc' = "connection_string"
                    /\ UNCHANGED <<result, exit_status>>
    /\ UNCHANGED <<entry, file, username, password, trusted_connection, if_exists,
                   connection_string, conn, engine, opened, wrote, table, tablePre, prev>>

\* Lines 31-37.
BuildConnectionString ==
    /\ pc = "connection_string"
    /\ IF trusted_connection
       THEN /\ connection_string' = trusted_string
            /\ pc' = "connect"
            /\ UNCHANGED <<result, exit_status>>
       ELSE IF Falsy(username) \/ Falsy(password)
            THEN /\ Raise("ValueError")
                 /\ UNCHANGED connection_string
            ELSE /\ connection_string' = credential_string(username, password)
                 /\ pc' = "connect"
                 /\ UNCHANGED <<result, exit_status>>
    /\ UNCHANGED <<entry, file, username, password, trusted_connection, if_exists, df,
                   conn, engine, opened, out, wrote, table, tablePre, prev>>

\* Lines 45-46: the engine is created from the same connection string; it
\* connects only when it is first used.
create_engine(cs) == [created |-> cs.mode # "none", idle |-> 0, checkedOut |-> 0]

\* Lines 39-46: pyodbc.connect either returns an open connection or raises;
\* after it the engine is created.
Connect ==
    /\ pc = "connect"
    /\ out' = Append(out, Msg("Connecting to SQL Server", 0))
    /\ \E ok \in BOOLEAN :
        IF ok
        THEN /\ conn' = "open"
             /\ opened' = opened + 1
             /\ engine' = create_engine(connection_string)
             /\ pc' = "to_sql"
        ELSE /\ pc' = "except"
             /\ UNCHANGED <<conn, opened, engine>>
    /\ UNCHANGED <<entry, file, username, password, trusted_connection, if_exists, df,
                   connection_string, result, exit_status, wrote, table, tablePre, prev>>

\* What a write that failed half-way can leave: an append or a 'fail' on an
\* existing table leaves it alone; a table that was being (re)created may be
\* left without its rows.
Partial(d, t, policy) ==
    IF t.exists /\ policy # "replace"
    THEN {t}
    ELSE {t, [exists |-> TRUE, columns |-> d.columns, rows |-> <<>>]}

\* Lines 49-50: df.to_sql through the engine. The engine's connection is taken
\* and given back inside the call.
ToSql ==
    /\ pc = "to_sql"
    /\ out' = Append(out, Msg("Loading data", 0))
    /\ \E fault \in {"none", "connect", "statement"} :
        CASE fault = "connect" ->
                /\ pc' = "except"
                /\ UNCHANGED <<engine, opened, table, wrote>>
          [] fault = "statement" ->
                /\ engine' = checkin(checkout(engine))
                /\ opened' = opened + checkout_opens(engine)
                /\ table' \in Partial(df, table, if_exists)
                /\ pc' = "except"
                /\ UNCHANGED wrote
          [] fault = "none" ->
                /\ engine' = checkin(checkout(engine))
                /\ opened' = opened + checkout_opens(engine)
                /\ IF to_sql_raises(df, table, if_exists)
                   THEN /\ pc' = "except"
                        /\ UNCHANGED <<table, wrote>>
                   ELSE /\ table' = to_sql(df, table, if_exists)
                        /\ wrote' = TRUE
                        /\ pc' = "verify"
    /\ UNCHANGED <<entry, file, username, password, trusted_connection, if_exists, df,
                   connection_string, conn, result, exit_status, tablePre, prev>>

\* Line 55: with engine.connect() as connection
VerifyConnect ==
    /\ pc = "verify"
    /\ \E ok \in BOOLEAN :
        IF ok
        THEN /\ engine' = checkout(engine)
             /\ opened' = opened + checkout_opens(engine)
             /\ pc' = "execute"
        ELSE /\ pc' = "verify_except"
             /\ UNCHANGED <<engine, opened>>
    /\ UNCHANGED <<entry, file, username, password, trusted_connection, if_exists, df,
                   connection_string, conn, out, result, exit_status, wrote, table,
                   tablePre, prev>>

\* Lines 56-58, and the end of the with block, which gives the connection back
\* whether the query returned or raised.
VerifyExecute ==
    /\ pc = "execute"
    /\ \E ok \in BOOLEAN :
        IF ok
        THEN /\ out' = Append(out, Msg("Verification: Table has rows", count_rows(table)))
             /\ engine' = checkin(engine)
             /\ pc' = "success"
        ELSE /\ engine' = checkin(engine)
             /\ pc' = "verify_except"
             /\ UNCHANGED out
    /\ UNCHANGED <<entry, file, username, password, trusted_connection, if_exists, df,
                   connection_string, conn, opened, result, exit_status, wrote, table,
                   tablePre, prev>>

\* Variant of VerifyAlternative: the second method's failure is not caught
\* where it occurs and reaches the outer handler.
VerifyAlternativeUncaught ==
    /\ pc = "verify_except"
    /\ \E fault \in {"none", "statement"} :
        LET tried == out \o <<Msg("Verification error", 0),
                              Msg("Trying alternative verification method", 0)>>
        IN  /\ engine' = checkin(checkout(engine))
            /\ opened' = opened + checkout_opens(engine)
            /\ IF fault = "none"
               THEN /\ out' = Append(tried, Msg("Verification: Table has rows",
                                                 count_rows(table)))
                    /\ pc' = "success"
               ELSE /\ out' = tried
                    /\ pc' = "except"
    /\ UNCHANGED <<entry, file, username, password, trusted_connection, if_exists, df,
                   connection_string, conn, result, exit_status, wrote, table,
                   tablePre, prev>>

\* Lines 59-68: the second method, pd.read_sql through the engine.
VerifyAlternative ==
    /\ pc = "verify_except"
    /\ \E fault \in {"none", "connect", "statement"} :
        LET tried == out \o <<Msg("Verification error", 0),
                              Msg("Trying alternative verification method", 0)>>
            failed == tried \o <<Msg("Alternative verification failed", 0),
                                 Msg("Data may have been inserted", 0)>>
        IN  CASE fault = "connect" ->
                    /\ out' = failed
                    /\ UNCHANGED <<engine, opened>>
              [] fault = "statement" ->
                    /\ engine' = checkin(checkout(engine))
                    /\ opened' = opened + checkout_opens(engine)
                    /\ out' = failed
              [] fault = "none" ->
                    /\ engine' = checkin(checkout(engine))
                    /\ opened' = opened + checkout_opens(engine)
                    /\ out' = Append(tried, Msg("Verification: Table has rows",
                                                count_rows(table)))
    /\ pc' = "success"
    /\ UNCHANGED <<entry, file, username, password, trusted_connection, if_exists, df,
                   connection_string, conn, result, exit_status, wrote, table,
                   tablePre, prev>>

\* Line 70.
ReportSuccess ==
    /\ pc = "success"
    /\ out' = Append(out, Msg("Successfully loaded rows", Len(df.rows)))
    /\ pc' = "finally"
    /\ UNCHANGED <<entry, file, username, password, trusted_connection, if_exists, df,
                   connection_string, conn, engine, opened, result, exit_status, wrote,
                   table, tablePre, prev>>

\* Lines 72-73.
Except ==
    /\ pc = "except"
    /\ out' = Append(out, Msg("Error", 0))
    /\ pc' = "finally"
    /\ UNCHANGED <<entry, file, username, password, trusted_connection, if_exists, df,
                   connection_string, conn, engine, opened, result, exit_status, wrote,
                   table, tablePre, prev>>

\* Variant of Finally: the connection is not closed.
FinallyLeak ==
    /\ pc = "finally"
    /\ Return
    /\ UNCHANGED <<entry, file, username, password, trusted_connection, if_exists, df,
                   connection_string, conn, engine, opened, out, wrote, table, tablePre,
                   prev>>

\* Lines 74-78: 'conn' in locals() holds exactly when line 42 bound it.
Finally ==
    /\ pc = "finally"
    /\ IF conn # "unbound"
       THEN /\ conn' = "closed"
            /\ out' = Append(out, Msg("SQL Server connection closed", 0))
       ELSE UNCHANGED <<conn, out>>
    /\ Return
    /\ UNCHANGED <<entry, file, username, password, trusted_connection, if_exists, df,
                   connection_string, engine, opened, wrote, table, tablePre, prev>>

\* The call is over: its locals are gone and the process, if any, has exited.
\* Only the database keeps its state for the next run.
Exit ==
    /\ pc \in {"done", "raised", "exited"}
    /\ pc' = "idle"
    /\ entry' = "direct"
    /\ file' = [exists |-> FALSE, decodable |-> TRUE, lines |-> <<>>]
    /\ username' = "sa"
    /\ password' = "P@ssw0rd!"
    /\ trusted_connection' = FALSE
    /\ if_exists' = "replace"
    /\ df' = NoDf
    /\ connection_string' = NoString
    /\ conn' = "unbound"
    /\ engine' = NoEngine
    /\ opened' = 0
    /\ out' = <<>>
    /\ result' = "none"
    /\ exit_status' = NoStatus
    /\ wrote' = FALSE
    /\ tablePre' = table
    /\ prev' = IF wrote /\ ~tablePre.exists
               THEN [created |-> TRUE, if_exists |-> if_exists, nrows |-> Len(df.rows)]
               ELSE NoPrev
    /\ UNCHANGED table

Next ==
    \/ main
    \/ DirectCall
    \/ CheckFile
    \/ ReadCsv
    \/ BuildConnectionString
    \/ Connect
    \/ ToSql
    \/ VerifyConnect
    \/ VerifyExecute
    \/ VerifyAlternative
    \/ ReportSuccess
    \/ Except
    \/ Finally
    \/ Exit

Spec == Init /\ [][Next]_vars

(***************************************************************************)
(* Properties.                                                              *)
(***************************************************************************)

Printed(m) == \E i \in 1..Len(out) : out[i].msg = m
PrintedN(m, n) == \E i \in 1..Len(out) : out[i] = Msg(m, n)
Ended == pc \in {"done", "raised"}
Called == pc \notin {"idle", "exited"}
Missing(s) == s \in {None, ""}
NoConnectionAttempt ==
    /\ opened = 0
    /\ conn = "unbound"
    /\ ~engine.created
    /\ connection_string = NoString

\* C1: when a run has ended, on any path, the direct connection it opened is
\* closed and no connection of the engine is still checked out.
ConnectionsReleasedAtEnd ==
    Ended =>
        /\ conn # "open"
        /\ opened > 0 => conn = "closed"
        /\ engine.checkedOut = 0

\* C1 witness: a run whose load failed after both the direct connection and an
\* engine connection had been opened has ended with the connection closed.
ReleasedAfterLoadError ==
    /\ pc = "done"
    /\ Printed("Error")
    /\ opened = 2
    /\ conn = "closed"

\* C2: a run whose CSV path is not an existing file ends with FileNotFoundError
\* and reads nothing, builds no connection string, connects nowhere.
FileNotFoundNoConnection ==
    (Called /\ ~file.exists) =>
        /\ pc \in {"isfile", "raised"}
        /\ pc = "raised" => result = "FileNotFoundError"
        /\ NoConnectionAttempt
        /\ ~df.parsed
        /\ out = <<>>
        /\ table = tablePre

\* C2 witness: a CLI run on a missing file has ended with FileNotFoundError.
FileNotFoundRaised ==
    /\ pc = "raised"
    /\ entry = "main"
    /\ ~file.exists
    /\ result = "FileNotFoundError"

\* C3 as stated: no run ends by an exception and no process exits with a
\* failure status.
NoAbnormalTermination ==
    /\ pc # "raised"
    /\ exit_status \in {NoStatus, Success}

\* C3 as amended: the errors of reading the CSV, of the load and of the
\* verification are caught and printed and the run returns normally, with exit
\* status 0 under the CLI; a missing file and, for a direct caller, missing
\* credentials in credential mode end the call by an uncaught exception, and
\* under the CLI only the missing file does, with exit status 1; a command line
\* that parse_args rejects ends the process with exit status 2, and --help with
\* exit status 0, before the function is called and before anything connects.
ErrorsCaughtExceptArgumentErrors ==
    /\ pc = "exited" =>
        /\ entry = "main"
        /\ result = "not called"
        /\ exit_status \in {Success, UsageError}
        /\ exit_status = UsageError => out = <<>>
        /\ NoConnectionAttempt
        /\ ~df.parsed
        /\ table = tablePre
    /\ exit_status = UsageError => pc = "exited"
    /\ exit_status = Failure => (pc = "raised" /\ result = "FileNotFoundError")
    /\ pc = "raised" =>
        \/ result = "FileNotFoundError" /\ ~file.exists
        \/ /\ result = "ValueError"
           /\ entry = "direct"
           /\ ~trusted_connection
           /\ Missing(username) \/ Missing(password)
    /\ (pc = "raised" /\ entry = "main") => exit_status = Failure
    /\ (Ended /\ file.exists /\ (entry = "main" \/ trusted_connection
                                  \/ (~Missing(username) /\ ~Missing(password)))) =>
            pc = "done"
    /\ pc = "done" =>
        /\ result = "returned"
        /\ entry = "main" => exit_status = Success
        /\ (~file.decodable \/ Len(file.lines) = 0) => Printed("Error reading CSV")
        /\ (df.parsed /\ Len(df.rows) > 0 /\ ~wrote) => Printed("Error")
        /\ (wrote /\ ~Printed("Verification: Table has rows")) =>
                Printed("Alternative verification failed")

\* C3 witness: a CLI run whose load failed printed the error and exited with
\* status 0.
LoadErrorExitsNormally ==
    /\ pc = "done"
    /\ entry = "main"
    /\ Printed("Error")
    /\ exit_status = Success

\* C4: in credential mode a missing or empty username or password makes the
\* construction fail with ValueError before anything connects; in trusted mode
\* they are ignored and the construction does not fail.
CredentialsCheckedBeforeConnecting ==
    /\ (Called /\ ~trusted_connection /\ (Missing(username) \/ Missing(password))) =>
        /\ NoConnectionAttempt
        /\ pc \in {"isfile", "read_csv", "connection_string", "raised", "done"}
        /\ pc = "done" => (~df.parsed \/ Len(df.rows) = 0)
        /\ (pc = "raised" /\ file.exists) => result = "ValueError"
    /\ result = "ValueError" =>
        /\ pc = "raised"
        /\ ~trusted_connection
        /\ Missing(username) \/ Missing(password)
    /\ (trusted_connection /\ df.parsed /\ Len(df.rows) > 0
            /\ pc \notin {"read_csv", "connection_string"}) =>
        connection_string = trusted_string

\* C4 witness: a direct call in credential mode with an empty password has
\* ended with ValueError.
EmptyPasswordRejected ==
    /\ pc = "raised"
    /\ result = "ValueError"
    /\ username = "u"
    /\ password = ""

\* C5: a CSV holding a header and no data row gives the warning and nothing
\* else: no connection, no write, the table as it was.
EmptyCsvNoLoad ==
    (Called /\ file.exists /\ file.decodable /\ Len(file.lines) = 1) =>
        /\ NoConnectionAttempt
        /\ ~wrote
        /\ table = tablePre
        /\ pc \in {"isfile", "read_csv", "done"}
        /\ pc = "done" =>
            /\ result = "returned"
            /\ Printed("WARNING: The CSV file has no data!")
            /\ ~Printed("Error reading CSV")
            /\ ~Printed("Error")

\* C5 witness: a run on a header-only CSV has ended with the warning while the
\* table held rows.
EmptyCsvWarned ==
    /\ pc = "done"
    /\ file.exists /\ file.decodable /\ Len(file.lines) = 1
    /\ Len(tablePre.rows) > 0
    /\ if_exists = "replace"
    /\ Printed("WARNING: The CSV file has no data!")

\* C6: once the write has succeeded, the written table stays as written, no
\* load error is printed, and the run reports success with the dataset's row
\* count, however the verification went.
VerificationDoesNotChangeOutcome ==
    wrote =>
        /\ table = to_sql(df, tablePre, if_exists)
        /\ ~Printed("Error")
        /\ pc \in {"verify", "execute", "verify_except", "success", "finally", "done"}
        /\ pc \in {"finally", "done"} =>
                PrintedN("Successfully loaded rows", Len(Tail(file.lines)))

\* C6 witness: a run whose two verification methods both failed has ended
\* after reporting the load as successful.
BothVerificationsFailed ==
    /\ pc = "done"
    /\ wrote
    /\ Printed("Alternative verification failed")
    /\ Printed("Successfully loaded rows")

\* C7 as stated: a run opens at most one connection to the database.
AtMostOneConnection == opened <= 1

\* C8: under 'fail' with the table already there, the table is left as it was,
\* no success is reported, a run that got as far as loading prints an error,
\* and after a first run that created the table under 'fail' the row count is
\* still that run's.
FailPolicyLeavesTable ==
    (Called /\ if_exists = "fail" /\ tablePre.exists) =>
        /\ table = tablePre
        /\ ~wrote
        /\ ~Printed("Successfully loaded rows")
        /\ (pc = "done" /\ df.parsed /\ Len(df.rows) > 0) => Printed("Error")
        /\ (prev.created /\ prev.if_exists = "fail") => Len(table.rows) = prev.nrows

\* C8 witness: the same dataset was loaded under 'fail' a second time, the
\* database was reached, and the run has ended with an error.
SecondFailLoadRejected ==
    /\ pc = "done"
    /\ if_exists = "fail"
    /\ prev.created /\ prev.if_exists = "fail"
    /\ Len(file.lines) > 1
    /\ tablePre.rows = Tail(file.lines)
    /\ opened = 2
    /\ Printed("Error")

\* C9: after a successful write under 'replace' the table holds exactly the
\* rows and columns of the CSV just loaded, and every row count the
\* verification prints is that dataset's.
ReplaceLeavesExactlyNewRows ==
    (wrote /\ if_exists = "replace") =>
        /\ table.exists
        /\ table.rows = Tail(file.lines)
        /\ table.columns = Head(file.lines)
        /\ \A i \in 1..Len(out) :
                out[i].msg = "Verification: Table has rows" =>
                    out[i].n = Len(Tail(file.lines))

\* C9 witness: after a load of A under 'replace', a load of a different B under
\* 'replace' has ended and its verification printed B's row count.
ReplacedAByB ==
    /\ pc = "done"
    /\ wrote
    /\ if_exists = "replace"
    /\ prev.created /\ prev.if_exists = "replace"
    /\ Len(tablePre.rows) > 0
    /\ \A i \in 1..Len(table.rows) : table.rows[i] # tablePre.rows[1]
    /\ PrintedN("Verification: Table has rows", Len(df.rows))

\* C10: a successful write under 'append' keeps the rows the table had and adds
\* one row per row of the CSV; with the same columns the added rows are the
\* CSV's; after a first append that created the table with A, the table holds
\* |A| + |B| rows.
AppendAddsRows ==
    (wrote /\ if_exists = "append") =>
        /\ Len(table.rows) = Len(tablePre.rows) + Len(Tail(file.lines))
        /\ SubSeq(table.rows, 1, Len(tablePre.rows)) = tablePre.rows
        /\ (~tablePre.exists \/ tablePre.columns = Head(file.lines)) =>
                table.rows = tablePre.rows \o Tail(file.lines)
        /\ (prev.created /\ prev.if_exists = "append") =>
                Len(table.rows) = prev.nrows + Len(Tail(file.lines))

\* C10 witness: after an append of a one-row A that created the table, an
\* append of a two-row B with the same columns has ended with three rows.
AppendedBToA ==
    /\ pc = "done"
    /\ wrote
    /\ if_exists = "append"
    /\ prev.created /\ prev.if_exists = "append" /\ prev.nrows = 1
    /\ tablePre.columns = df.columns
    /\ Len(df.rows) = 2
    /\ Len(table.rows) = 3

====
